---- MODULE Spec2Model ----
(***************************************************************************)
(* A model of the simple-python-package-index server: the distribution     *)
(* scanner (dist_scanner.py), the index store and its two queries          *)
(* (database.py) and the HTTP layer (main.py, dependencies/etag.py), and   *)
(* the in-memory SimpleIndexCollection of simple_python_package_index.     *)
(*                                                                         *)
(* Text is modelled as a sequence of one-character strings, so that        *)
(* prefixes, suffixes, GLOB patterns, replacement and byte order are       *)
(* computed and not assumed.                                               *)
(***************************************************************************)
EXTENDS Integers, Sequences, FiniteSets, TLC

VARIABLES
    fs,        \* the archives under files_dir: a set of [dir, name, c] records
    store,     \* the Distribution table: a sequence of rows, position = ROWID
    sidecars,  \* the .metadata files under cache_dir: a set of [dir, name, c]
    scan,      \* the position of the running Database.update(), or idle
    hist,      \* history: the file-system changes so far and the completed update() calls
    result,    \* the value returned by the last store query
    mtime,     \* FileMTimeWatcher.mtime, the polled mtime of the database file
    dbmtime,   \* the mtime of the database file on disk
    resp       \* the response to the last HTTP request

vars == <<fs, store, sidecars, scan, hist, result, mtime, dbmtime, resp>>

----------------------------------------------------------------------------
(* Bounds of the model *)

\* file-system changes (add, remove, replace) in one behaviour
MaxFsChanges == 3
\* Database.update() calls in one behaviour
MaxScans == 2
\* rows of a store drawn for the query and HTTP specifications
MaxRows == 3

----------------------------------------------------------------------------
(* Text *)

\* the characters of the model in ascending byte (ASCII) order
Alphabet ==
    << "\"", "*", "-", ".", "/", "0", "1", "9", "?", "A", "B", "W", "X",
       "[", "]", "_", "a", "b", "e", "g", "h", "i", "l", "m", "n", "p",
       "r", "s", "t", "w", "x", "z" >>

Ord(ch) == CHOOSE i \in 1..Len(Alphabet) : Alphabet[i] = ch

\* a < b in byte order (memcmp, then length): SQLite's BINARY collation and
\* Python's comparison of ASCII str
StrLess(a, b) ==
    \E k \in 1..Len(b) :
        /\ \A i \in 1..(k - 1) : i <= Len(a) /\ a[i] = b[i]
        /\ \/ k = Len(a) + 1
           \/ k <= Len(a) /\ Ord(a[k]) < Ord(b[k])

StartsWith(s, p) == Len(p) <= Len(s) /\ SubSeq(s, 1, Len(p)) = p

EndsWith(s, p) == Len(p) <= Len(s) /\ SubSeq(s, Len(s) - Len(p) + 1, Len(s)) = p

\* str.lstrip(chars)
RECURSIVE LStrip(_, _)
LStrip(s, chars) ==
    IF s # <<>> /\ Head(s) \in chars THEN LStrip(Tail(s), chars) ELSE s

\* the set S of strings as the sequence sorted ascending
RECURSIVE SortedSeq(_)
SortedSeq(S) ==
    IF S = {} THEN <<>>
    ELSE LET least == CHOOSE x \in S : \A y \in S \ {x} : StrLess(x, y)
         IN  <<least>> \o SortedSeq(S \ {least})

Range(q) == {q[i] : i \in DOMAIN q}

----------------------------------------------------------------------------
(* packaging.utils *)

Lower(ch) ==
    CASE ch = "A" -> "a"
      [] ch = "B" -> "b"
      [] ch = "W" -> "w"
      [] ch = "X" -> "x"
      [] OTHER -> ch

NameSeparators == {"-", "_", "."}

\* canonicalize_name: re.sub(r"[-_.]+", "-", name).lower()
RECURSIVE canonicalize_name(_)
canonicalize_name(s) ==
    IF s = <<>> THEN <<>>
    ELSE IF Head(s) \in NameSeparators
         THEN <<"-">> \o canonicalize_name(LStrip(Tail(s), NameSeparators))
         ELSE <<Lower(Head(s))>> \o canonicalize_name(Tail(s))

\* canonicalize_version on a release-only version: the trailing ".0"
\* segments of the release are dropped
RECURSIVE canonicalize_version(_)
canonicalize_version(s) ==
    IF Len(s) > 2 /\ EndsWith(s, <<".", "0">>)
    THEN canonicalize_version(SubSeq(s, 1, Len(s) - 2))
    ELSE s

----------------------------------------------------------------------------
(* The files directory *)

RootDir == <<".">>
ExtDir == <<"e", "x", "t">>
HiddenExtDir == <<".", "e", "x", "t">>
SubDir == <<"e", "x", "t", "/", "s">>

WheelA == <<"a", ".", "w", "h", "l">>
WheelB == <<"b", ".", "w", "h", "l">>
SdistA == <<"a", ".", "t", "a", "r", ".", "g", "z">>
TextN == <<"n", ".", "t", "x", "t">>

\* What an archive's bytes hold: whether the metadata entry can be read and
\* parsed, and the Name and Version headers
Contents ==
    [ c1 |-> [readable |-> TRUE, name |-> <<"a">>, version |-> <<"1", ".", "0">>],
      c2 |-> [readable |-> TRUE, name |-> <<"a">>, version |-> <<"1", ".", "1", "0">>],
      c3 |-> [readable |-> TRUE, name |-> <<"a">>, version |-> <<"1", ".", "9">>],
      c4 |-> [readable |-> TRUE, name |-> <<"A", "_", ".", "b">>, version |-> <<"1", ".", "0">>],
      c5 |-> [readable |-> TRUE, name |-> <<"B">>, version |-> <<"1", ".", "9">>],
      c6 |-> [readable |-> FALSE, name |-> <<>>, version |-> <<>>] ]

File(d, n, c) == [dir |-> d, name |-> n, c |-> c]

\* the files that may appear under files_dir: an archive and its replacement,
\* a text file, an unreadable sdist, a sub-index directory, a hidden
\* directory of the same name and a nested directory
Archives ==
    { File(RootDir, WheelA, "c1"), File(RootDir, WheelA, "c2"),
      File(RootDir, TextN, "c1"), File(RootDir, SdistA, "c6"),
      File(ExtDir, WheelA, "c1"), File(HiddenExtDir, WheelA, "c2"),
      File(SubDir, WheelB, "c5") }

\* further archives, for the stores the queries are run against
MoreArchives ==
    { File(RootDir, SdistA, "c3"), File(RootDir, WheelB, "c4"),
      File(ExtDir, WheelB, "c5"), File(SubDir, WheelA, "c3") }

SamePath(f, g) == f.dir = g.dir /\ f.name = g.name

\* file.relative_to(files_dir).as_posix()
RelPath(f) == IF f.dir = RootDir THEN f.name ELSE f.dir \o <<"/">> \o f.name

----------------------------------------------------------------------------
(* dist_scanner.py *)

\* ProjectFileReader.iter_files: the sub-index of a directory,
\*   f"{root_dir.relative_to(files_dir).as_posix()}/".lstrip(".")
IndexOfDir(d) == LStrip(d \o <<"/">>, {"."})

\* cache_dir, nested inside files_dir (the default, <base_dir>/.cache)
CacheDir == <<".", "c", "a", "c", "h", "e">>

\* ProjectFileReader.iter_files over a tree: the (index, file) pairs of the
\* files of every directory of the walk but cache_dir
iter_files(tree) ==
    {[index |-> IndexOfDir(f.dir), file |-> f] : f \in {g \in tree : g.dir # CacheDir}}

\* read_project_metadata: the archive kind by suffix
IsWheel(n) == EndsWith(n, <<".", "w", "h", "l">>)
IsSdist(n) == EndsWith(n, <<".", "t", "a", "r", ".", "g", "z">>)

\* ProjectFileReader.read: UnhandledFileTypeError, InvalidFileError or
\* (name, version, dist); a dist holds the filename, the url relative to
\* files_dir, and the digests of the archive and of its metadata (the
\* content stands for its own digest)
read(f) ==
    IF ~(IsWheel(f.name) \/ IsSdist(f.name))
    THEN [err |-> "UnhandledFileTypeError"]
    ELSE IF ~Contents[f.c].readable
    THEN [err |-> "InvalidFileError"]
    ELSE [err |-> "none",
          name |-> canonicalize_name(Contents[f.c].name),
          version |-> canonicalize_version(Contents[f.c].version),
          dist |-> [filename |-> f.name, url |-> RelPath(f),
                    sha256 |-> f.c, core_metadata |-> f.c]]

\* ProjectFileReader.save_metadata: the sidecar of f is (over)written
save_metadata(sc, f) == {s \in sc : ~SamePath(s, f)} \cup {f}

----------------------------------------------------------------------------
(* database.py: the store *)

Row(index, name, filename, version, dist) ==
    [index |-> index, project |-> name, filename |-> filename,
     version |-> version, file |-> dist]

\* a CHECK_DIST that finds no row
CHECK_DIST_NoRow(st, index, filename) == 0

\* CHECK_DIST: SELECT COUNT(*) WHERE "index" = ? AND "filename" = ?
CHECK_DIST(st, index, filename) ==
    Cardinality({i \in DOMAIN st : st[i].index = index /\ st[i].filename = filename})

\* BUILD_TABLE: the UNIQUE INDEX file_lookup ON Distribution("index", "file")
\* rejects the row
FileLookupConflict(st, row) ==
    \E i \in DOMAIN st : st[i].index = row.index /\ st[i].file = row.file

\* a STORE_DIST that replaces the rows of the project of the new row
STORE_DIST_Replace(st, row) ==
    Append(SelectSeq(st, LAMBDA r : r.project # row.project), row)

\* STORE_DIST: INSERT INTO Distribution VALUES (?, ?, ?, ?, ?)
STORE_DIST(st, row) == Append(st, row)

\* GET_STATS / Database.stats
stats(st) ==
    << Len(st),
       Cardinality({st[i].project : i \in DOMAIN st}),
       Cardinality({st[i].index : i \in DOMAIN st}) >>

\* an iteration whose read error is not handled
UpdateOne_NoHandler(st, sc, index, f) ==
    IF CHECK_DIST(st, index, f.name) # 0
    THEN [store |-> st, sidecars |-> sc, raised |-> FALSE]
    ELSE LET r == read(f) IN
         IF r.err # "none"
         THEN [store |-> st, sidecars |-> sc, raised |-> TRUE]
         ELSE [store |-> STORE_DIST(st, Row(index, r.name, f.name, r.version, r.dist)),
               sidecars |-> save_metadata(sc, f), raised |-> FALSE]

\* One iteration of the loop of Database.update on (index, file): what
\* becomes of the store and the sidecars, and whether the iteration raised
UpdateOne(st, sc, index, f) ==
    IF CHECK_DIST(st, index, f.name) # 0
    THEN [store |-> st, sidecars |-> sc, raised |-> FALSE]
    ELSE LET r == read(f) IN
         IF r.err # "none"
         THEN [store |-> st, sidecars |-> sc, raised |-> FALSE]
         ELSE LET row == Row(index, r.name, f.name, r.version, r.dist) IN
              IF FileLookupConflict(st, row)
              THEN [store |-> st, sidecars |-> save_metadata(sc, f), raised |-> TRUE]
              ELSE [store |-> STORE_DIST(st, row),
                    sidecars |-> save_metadata(sc, f), raised |-> FALSE]

----------------------------------------------------------------------------
(* database.py: the queries *)

\* SQLite's GLOB operator: * matches any run of characters, ? any one
\* character, [...] one character of a set ([^...] one outside it)
RECURSIVE GLOB(_, _)
GLOB(pat, s) ==
    IF pat = <<>> THEN s = <<>>
    ELSE IF Head(pat) = "*"
    THEN \E k \in 0..Len(s) : GLOB(Tail(pat), SubSeq(s, k + 1, Len(s)))
    ELSE IF s = <<>> THEN FALSE
    ELSE IF Head(pat) = "?" THEN GLOB(Tail(pat), Tail(s))
    ELSE IF Head(pat) = "["
    THEN LET neg == Len(pat) >= 2 /\ pat[2] = "^"
             first == IF neg THEN 3 ELSE 2
             close == {j \in (first + 1)..Len(pat) : pat[j] = "]"}
         IN  /\ close # {}
             /\ LET j == CHOOSE x \in close : \A y \in close : x <= y
                    members == {pat[i] : i \in first..(j - 1)}
                IN  /\ (Head(s) \in members) # neg
                    /\ GLOB(SubSeq(pat, j + 1, Len(pat)), Tail(s))
    ELSE Head(pat) = Head(s) /\ GLOB(Tail(pat), Tail(s))

\* search_index = f"{index}/*" if index else "*"
search_index(index) == IF index # <<>> THEN index \o <<"/", "*">> ELSE <<"*">>

\* a LOOKUP_PROJECT_LIST without DISTINCT and ORDER BY: the project of every
\* matching row, in ROWID order
LOOKUP_PROJECT_LIST_AllRows(st, pattern) ==
    LET match == SelectSeq(st, LAMBDA row : GLOB(pattern, row.index))
    IN  [k \in DOMAIN match |-> match[k].project]

\* LOOKUP_PROJECT_LIST: SELECT DISTINCT project WHERE "index" GLOB ?
\* ORDER BY project
LOOKUP_PROJECT_LIST(st, pattern) ==
    SortedSeq({st[i].project : i \in {j \in DOMAIN st : GLOB(pattern, st[j].index)}})

\* Database.get_project_list: ProjectList(projects=[Project(name) ...])
get_project_list(st, index) == LOOKUP_PROJECT_LIST(st, search_index(index))

\* the rows of the WHERE clause of LOOKUP_PROJECT_DETAIL
DetailCandidates(st, project, pattern) ==
    {i \in DOMAIN st : st[i].project = project /\ GLOB(pattern, st[i].index)}

\* a LOOKUP_PROJECT_DETAIL that keeps the last row of a group:
\* HAVING ROWID = MAX(ROWID)
LOOKUP_PROJECT_DETAIL_Last(st, project, pattern) ==
    LET cand == DetailCandidates(st, project, pattern)
        names == SortedSeq({st[i].filename : i \in cand})
        last(n) == CHOOSE i \in cand :
                       /\ st[i].filename = n
                       /\ \A j \in cand : st[j].filename = n => j <= i
    IN  [k \in DOMAIN names |-> last(names[k])]

\* LOOKUP_PROJECT_DETAIL: GROUP BY filename HAVING ROWID = MIN(ROWID)
\* ORDER BY filename; the ROWIDs of the result rows, in result order (SQLite
\* takes the bare columns of a group from the row that holds MIN(ROWID))
LOOKUP_PROJECT_DETAIL(st, project, pattern) ==
    LET cand == DetailCandidates(st, project, pattern)
        names == SortedSeq({st[i].filename : i \in cand})
        least(n) == CHOOSE i \in cand :
                        /\ st[i].filename = n
                        /\ \A j \in cand : st[j].filename = n => i <= j
    IN  [k \in DOMAIN names |-> least(names[k])]

\* the versions as appended, neither deduplicated nor sorted
SortedSet_AsAppended(versions) == versions

\* detail.versions = sorted(set(detail.versions))
SortedSet(versions) == SortedSeq(Range(versions))

\* Database.get_project_detail
get_project_detail(st, project, index) ==
    LET rows == LOOKUP_PROJECT_DETAIL(st, project, search_index(index))
        versions == [k \in DOMAIN rows |-> st[rows[k]].version]
        files == [k \in DOMAIN rows |-> st[rows[k]].file]
    IN  [name |-> project, versions |-> SortedSet(versions), files |-> files]

----------------------------------------------------------------------------
(* The scanner and the file system *)

Idle == [pc |-> "idle"]

NoResult == [op |-> "none"]

Init ==
    /\ fs = {}
    /\ store = <<>>
    /\ sidecars = {}
    /\ scan = Idle
    /\ hist = [changes |-> 0, updates |-> <<>>, ingested |-> {}]
    /\ result = NoResult
    /\ mtime = 0
    /\ dbmtime = 0
    /\ resp = NoResult

FsChange == hist' = [hist EXCEPT !.changes = hist.changes + 1]

\* a new archive is placed under files_dir
AddFile ==
    /\ scan = Idle
    /\ hist.changes < MaxFsChanges
    /\ \E f \in Archives :
        /\ \A g \in fs : ~SamePath(f, g)
        /\ fs' = fs \cup {f}
    /\ FsChange
    /\ UNCHANGED <<store, sidecars, scan, result, mtime, dbmtime, resp>>

\* an archive is removed from files_dir
RemoveFile ==
    /\ scan = Idle
    /\ hist.changes < MaxFsChanges
    /\ \E f \in fs : fs' = fs \ {f}
    /\ FsChange
    /\ UNCHANGED <<store, sidecars, scan, result, mtime, dbmtime, resp>>

\* an archive is replaced by one of the same name with other bytes
ReplaceFile ==
    /\ scan = Idle
    /\ hist.changes < MaxFsChanges
    /\ \E f \in fs : \E g \in Archives :
        /\ SamePath(f, g) /\ f # g
        /\ fs' = (fs \ {f}) \cup {g}
    /\ FsChange
    /\ UNCHANGED <<store, sidecars, scan, result, mtime, dbmtime, resp>>

\* Database.update is called: the walk of files_dir starts
UpdateBegin ==
    /\ scan = Idle
    /\ Len(hist.updates) < MaxScans
    /\ scan' = [pc |-> "walk", todo |-> iter_files(fs), tree |-> fs, before |-> store]
    /\ UNCHANGED <<fs, store, sidecars, hist, result, mtime, dbmtime, resp>>

UpdateRecord(outcome, st) ==
    [tree |-> scan.tree, before |-> scan.before, after |-> st, outcome |-> outcome]

\* one iteration of the loop of Database.update, the walk yielding its files
\* in any order; an IntegrityError ends the call
UpdateFile ==
    /\ scan.pc = "walk"
    /\ \E e \in scan.todo :
        LET u == UpdateOne(store, sidecars, e.index, e.file)
            new == {[index |-> u.store[i].index, filename |-> u.store[i].filename] :
                        i \in (DOMAIN u.store) \ (DOMAIN store)}
        IN
        /\ store' = u.store
        /\ sidecars' = u.sidecars
        /\ IF u.raised
           THEN /\ scan' = Idle
                /\ hist' = [hist EXCEPT !.updates =
                                Append(@, UpdateRecord("IntegrityError", u.store))]
           ELSE /\ scan' = [scan EXCEPT !.todo = scan.todo \ {e}]
                /\ hist' = [hist EXCEPT !.ingested = @ \cup new]
    /\ UNCHANGED <<fs, result, mtime, dbmtime, resp>>

\* the walk is exhausted: Database.update returns
UpdateEnd ==
    /\ scan.pc = "walk"
    /\ scan.todo = {}
    /\ scan' = Idle
    /\ hist' = [hist EXCEPT !.updates = Append(@, UpdateRecord("returned", store))]
    /\ UNCHANGED <<fs, store, sidecars, result, mtime, dbmtime, resp>>

Next ==
    \/ AddFile
    \/ RemoveFile
    \/ ReplaceFile
    \/ UpdateBegin
    \/ UpdateFile
    \/ UpdateEnd

Spec == Init /\ [][Next]_vars

----------------------------------------------------------------------------
(* The queries, run against the stores a scan can leave *)

\* the row Database.update inserts for an archive
RowOf(f) ==
    LET r == read(f) IN Row(IndexOfDir(f.dir), r.name, f.name, r.version, r.dist)

Rows == {RowOf(f) : f \in {g \in Archives \cup MoreArchives : read(g).err = "none"}}

\* the stores of at most MaxRows rows, inserted in any order, one row for
\* an (index, filename) pair
Stores ==
    {st \in UNION {[1..n -> Rows] : n \in 0..MaxRows} :
        \A i \in DOMAIN st : CHECK_DIST(st, st[i].index, st[i].filename) = 1}

\* the index names and the project names asked for
IndexNames ==
    { <<>>, ExtDir, <<"e", "x">>, SubDir, <<"e", "?", "t">>, <<"*">> }

ProjectNames == { <<"a">>, <<"a", "-", "b">>, <<"b">>, <<"z">> }

InitQuery ==
    /\ store \in Stores
    /\ fs = {}
    /\ sidecars = {}
    /\ scan = Idle
    /\ hist = [changes |-> 0, updates |-> <<>>, ingested |-> {}]
    /\ result = NoResult
    /\ mtime = 0
    /\ dbmtime = 0
    /\ resp = NoResult

\* Database.get_project_list is called and returns
QueryList ==
    /\ result = NoResult
    /\ \E index \in IndexNames :
        result' = [op |-> "list", index |-> index,
                   value |-> get_project_list(store, index)]
    /\ UNCHANGED <<fs, store, sidecars, scan, hist, mtime, dbmtime, resp>>

\* Database.get_project_detail is called and returns
QueryDetail ==
    /\ result = NoResult
    /\ \E index \in IndexNames : \E project \in ProjectNames :
        result' = [op |-> "detail", index |-> index, project |-> project,
                   value |-> get_project_detail(store, project, index)]
    /\ UNCHANGED <<fs, store, sidecars, scan, hist, mtime, dbmtime, resp>>

\* the caller is done with the value returned
QueryDone ==
    /\ result # NoResult
    /\ result' = NoResult
    /\ UNCHANGED <<fs, store, sidecars, scan, hist, mtime, dbmtime, resp>>

NextQuery == QueryList \/ QueryDetail \/ QueryDone

SpecQuery == InitQuery /\ [][NextQuery]_vars

----------------------------------------------------------------------------
(* The HTTP layer: main.py with the Etag and media type dependencies *)

\* str(watcher.mtime): the mtime is a float
Digits == <<"0", "1", "2", "3", "4", "5", "6", "7", "8", "9">>

MTimeStr(m) == <<Digits[m + 1], ".", "0">>

NoHeader == <<>>

JSON_V1 == "application/vnd.pypi.simple.v1+json"
HTML_V1 == "application/vnd.pypi.simple.v1+html"

\* _ACCEPTABLE, in the order of the dict
AcceptableJson == {JSON_V1, "application/vnd.pypi.simple.latest+json"}
\* an HTML row without */*
AcceptableHtml_NoWildcard ==
    {HTML_V1, "application/vnd.pypi.simple.latest+html", "text/html"}

AcceptableHtml == {HTML_V1, "application/vnd.pypi.simple.latest+html", "text/html", "*/*"}

\* str.split(","), on a header given as the sequence of its media ranges,
\* commas and spaces: the entries between the commas, untrimmed
RECURSIVE split(_)
split(header) ==
    IF \A i \in DOMAIN header : header[i] # ","
    THEN <<header>>
    ELSE LET i == CHOOSE k \in DOMAIN header :
                      header[k] = "," /\ \A j \in 1..(k - 1) : header[j] # ","
         IN  <<SubSeq(header, 1, i - 1)>> \o split(SubSeq(header, i + 1, Len(header)))

\* a get_response_media_type that looks at the HTML row first
get_response_media_type_HtmlFirst(accept) ==
    LET entries == IF accept = NoHeader THEN {<<"*/*">>} ELSE Range(split(accept))
    IN  IF \E v \in AcceptableHtml : <<v>> \in entries
        THEN [raised |-> 0, media_type |-> HTML_V1]
        ELSE IF \E v \in AcceptableJson : <<v>> \in entries
        THEN [raised |-> 0, media_type |-> JSON_V1]
        ELSE [raised |-> 406, media_type |-> "none"]

\* get_response_media_type, on the accept header split at its commas (the
\* header defaults to */*); 406 when no entry is acceptable
get_response_media_type(accept) ==
    LET entries == IF accept = NoHeader THEN {<<"*/*">>} ELSE Range(split(accept))
    IN  IF \E v \in AcceptableJson : <<v>> \in entries
        THEN [raised |-> 0, media_type |-> JSON_V1]
        ELSE IF \E v \in AcceptableHtml : <<v>> \in entries
        THEN [raised |-> 0, media_type |-> HTML_V1]
        ELSE [raised |-> 406, media_type |-> "none"]

\* an is_modified that never finds the client's copy current
is_modified_Always(etag, client_etag) == TRUE

\* Etag.is_modified
is_modified(etag, client_etag) ==
    IF etag = <<>> THEN TRUE ELSE client_etag = <<>> \/ etag # client_etag

\* an Etag.__call__ with weak = False
Etag_Strong(gen, if_none_match, if_match) ==
    LET etag == IF gen # <<>> THEN <<"\"">> \o gen \o <<"\"">> ELSE gen
        header_type == IF if_none_match # <<>> THEN "if-none-match"
                       ELSE IF if_match # <<>> THEN "if-match" ELSE "none"
        client_etag == IF if_none_match # <<>> THEN if_none_match ELSE if_match
        modified == etag = <<>> \/ client_etag = <<>> \/ etag # client_etag
    IN  [raised |-> IF ~modified /\ header_type = "if-none-match" THEN 304
                    ELSE IF modified /\ header_type = "if-match" THEN 412 ELSE 0,
         etag |-> etag]

\* an Etag.__call__ that does not look at If-Match
Etag_NoIfMatch(gen, if_none_match, if_match) ==
    LET etag == IF gen # <<>> THEN <<"W", "/", "\"">> \o gen \o <<"\"">> ELSE gen
    IN  [raised |-> IF if_none_match # <<>> /\ etag # <<>> /\ etag = if_none_match
                    THEN 304 ELSE 0,
         etag |-> etag]

\* Etag.__call__ with weak = True, for the string etag_gen returns and the
\* two conditional headers (an absent header and an empty one are both falsy)
Etag(gen, if_none_match, if_match) ==
    LET etag == IF gen # <<>> THEN <<"W", "/", "\"">> \o gen \o <<"\"">> ELSE gen
        header_type == IF if_none_match # <<>> THEN "if-none-match"
                       ELSE IF if_match # <<>> THEN "if-match" ELSE "none"
        client_etag == IF if_none_match # <<>> THEN if_none_match ELSE if_match
        modified == is_modified(etag, client_etag)
    IN  [raised |-> IF ~modified /\ header_type = "if-none-match" THEN 304
                    ELSE IF modified /\ header_type = "if-match" THEN 412 ELSE 0,
         etag |-> etag]

\* get_etag and the Etag of detail_get generate str(watcher.mtime)
get_etag(m, req) == Etag(MTimeStr(m), req.if_none_match, req.if_match)

\* str.replace: every occurrence of old, left to right (old not empty)
RECURSIVE Replace(_, _, _)
Replace(s, old, new) ==
    IF Len(s) < Len(old) THEN s
    ELSE IF StartsWith(s, old)
         THEN new \o Replace(SubSeq(s, Len(old) + 1, Len(s)), old, new)
         ELSE <<Head(s)>> \o Replace(Tail(s), old, new)

SimplePath == <<"/", "s", "i", "m", "p", "l", "e", "/">>

\* request.url.path of /simple/, /{index}/simple/, /simple/{project}/ and
\* /{index}/simple/{project}/
UrlPath(req) ==
    (IF req.index = <<>> THEN <<>> ELSE <<"/">> \o req.index)
        \o SimplePath
        \o (IF req.route = "detail" THEN req.project \o <<"/">> ELSE <<>>)

\* request.url_for("files", path=url) under settings.files_url
files_url == <<"/", "f", "i", "l", "e", "s">>

url_for_files(url) == files_url \o <<"/">> \o url

Response(status, etag, location, media_type, body) ==
    [status |-> status, etag |-> etag, location |-> location,
     media_type |-> media_type, body |-> body]

\* an HTTPException raised by a dependency or by the handler
Raised(status, etag) == Response(status, etag, NoHeader, "none", <<>>)

\* an index handler that answers an empty listing
index_Empty200(st, req, media_type, etag) ==
    Response(200, etag, NoHeader, media_type, get_project_list(st, req.index))

\* the body of index: the listing in the negotiated media type, carrying
\* the etag header; 404 for an empty listing
index(st, req, media_type, etag) ==
    LET project_list == get_project_list(st, req.index)
    IN  IF project_list = <<>> THEN Raised(404, NoHeader)
        ELSE Response(200, etag, NoHeader, media_type, project_list)

\* a project_detail that looks the project up before it redirects
project_detail_LookupFirst(st, req, media_type, etag) ==
    LET project_canonical == canonicalize_name(req.project)
        project_details == get_project_detail(st, project_canonical, req.index)
    IN  IF project_details.files = <<>> THEN Raised(404, NoHeader)
        ELSE IF req.project # project_canonical
        THEN Response(301, NoHeader,
                      Replace(UrlPath(req), req.project, project_canonical), "none", <<>>)
        ELSE Response(200, etag, NoHeader, media_type, project_details)

\* the body of project_detail: the redirect to the canonical name, then the
\* lookup, the file urls rewritten, 404 without files
project_detail(st, req, media_type, etag) ==
    LET project_canonical == canonicalize_name(req.project)
        project_details == get_project_detail(st, project_canonical, req.index)
        files == [k \in DOMAIN project_details.files |->
                     [project_details.files[k] EXCEPT !.url = url_for_files(@)]]
    IN  IF req.project # project_canonical
        THEN Response(301, NoHeader,
                      Replace(UrlPath(req), req.project, project_canonical), "none", <<>>)
        ELSE IF project_details.files = <<>> THEN Raised(404, NoHeader)
        ELSE Response(200, etag, NoHeader, media_type,
                      [project_details EXCEPT !.files = files])

\* a request to an index route: the dependencies in the order of the
\* parameters (media type, session, etag), then the body
IndexRoute(st, m, req) ==
    LET media == get_response_media_type(req.accept)
        etag == get_etag(m, req)
    IN  IF media.raised # 0 THEN Raised(media.raised, NoHeader)
        ELSE IF etag.raised # 0 THEN Raised(etag.raised, etag.etag)
        ELSE index(st, req, media.media_type, etag.etag)

\* a request to a detail route: the Etag dependency of the decorator comes
\* first and reads the mtime m1, the dependencies of the parameters follow
\* and get_etag reads the mtime m2
DetailRoute(st, m1, m2, req) ==
    LET first == get_etag(m1, req)
        media == get_response_media_type(req.accept)
        etag == get_etag(m2, req)
    IN  IF first.raised # 0 THEN Raised(first.raised, first.etag)
        ELSE IF media.raised # 0 THEN Raised(media.raised, NoHeader)
        ELSE IF etag.raised # 0 THEN Raised(etag.raised, etag.etag)
        ELSE project_detail(st, req, media.media_type, etag.etag)

\* the etags the Etag dependencies of a request have computed
IndexEtags(m, req) ==
    IF get_response_media_type(req.accept).raised # 0 THEN {}
    ELSE {get_etag(m, req).etag}

DetailEtags(m1, m2, req) ==
    {get_etag(m1, req).etag}
        \cup (IF /\ get_etag(m1, req).raised = 0
                 /\ get_response_media_type(req.accept).raised = 0
              THEN {get_etag(m2, req).etag} ELSE {})

\* the greatest mtime of the database file
MaxMTime == 2

\* the requests sent
HttpIndexes == { <<>>, ExtDir, <<"e", "x">>, <<"A">> }

HttpProjects == { <<"a">>, <<"A">>, <<"a", "_", "b">>, <<"a", "-", "b">>, <<"b">>, <<"B">> }

AcceptHeaders ==
    { NoHeader, <<JSON_V1>>, <<"text/html">>, <<"application/xml">>,
      <<"text/html", ",", JSON_V1>> }

ClientEtags ==
    { NoHeader, <<"X", "X", "X">> }
        \cup {Etag(MTimeStr(m), NoHeader, NoHeader).etag : m \in 0..MaxMTime}

Requests ==
    [route : {"index", "detail"}, index : HttpIndexes, project : HttpProjects,
     accept : AcceptHeaders, if_none_match : ClientEtags, if_match : ClientEtags]

NoRequest == [route |-> "none"]

\* the stores served
HttpStores ==
    { <<>>,
      <<RowOf(File(RootDir, WheelA, "c1"))>>,
      <<RowOf(File(ExtDir, WheelB, "c5"))>>,
      <<RowOf(File(RootDir, WheelB, "c4")), RowOf(File(ExtDir, WheelA, "c1"))>> }

\* the server has started: the watcher has not yet read the mtime of the
\* database file
InitHttp ==
    /\ store \in HttpStores
    /\ fs = {}
    /\ sidecars = {}
    /\ scan = Idle
    /\ hist = [changes |-> 0, updates |-> <<>>, ingested |-> {}]
    /\ result = NoResult
    /\ mtime = 0
    /\ dbmtime \in 1..MaxMTime
    /\ resp = [req |-> NoRequest]

\* FileMTimeWatcher.run: one round of the polling loop
WatcherRun ==
    /\ mtime # dbmtime
    /\ mtime' = dbmtime
    /\ UNCHANGED <<fs, store, sidecars, scan, hist, result, dbmtime, resp>>

\* GET /simple/ or /{index}/simple/
IndexRequest ==
    /\ resp.req = NoRequest
    /\ \E req \in {r \in Requests : r.route = "index" /\ r.project = <<"a">>} :
        resp' = [req |-> req, etags |-> IndexEtags(mtime, req),
                 response |-> IndexRoute(store, mtime, req)]
    /\ UNCHANGED <<fs, store, sidecars, scan, hist, result, mtime, dbmtime>>

\* GET /simple/{project}/ or /{index}/simple/{project}/; the watcher may
\* run while the dependencies are resolved
ProjectDetailRequest ==
    /\ resp.req = NoRequest
    /\ \E req \in {r \in Requests : r.route = "detail"} :
       \E m2 \in {mtime, dbmtime} :
        /\ resp' = [req |-> req, etags |-> DetailEtags(mtime, m2, req),
                    response |-> DetailRoute(store, mtime, m2, req)]
        /\ mtime' = m2
    /\ UNCHANGED <<fs, store, sidecars, scan, hist, result, dbmtime>>

\* the response is sent
Respond ==
    /\ resp.req # NoRequest
    /\ resp' = [req |-> NoRequest]
    /\ UNCHANGED <<fs, store, sidecars, scan, hist, result, mtime, dbmtime>>

NextHttp == WatcherRun \/ IndexRequest \/ ProjectDetailRequest \/ Respond

SpecHttp == InitHttp /\ [][NextHttp]_vars

----------------------------------------------------------------------------
(* The conditional layer on its own: Etag.__call__ and handle_etag *)

\* handle_etag with weak = True, for the etag handed in (or found in
\* request.state) and the two conditional headers; headers is {"etag": etag}
\* when there is an etag
handle_etag(gen, if_none_match, if_match) ==
    LET etag == IF gen # <<>> THEN <<"W", "/", "\"">> \o gen \o <<"\"">> ELSE gen
    IN  [raised |-> IF if_none_match # <<>> /\ etag = if_none_match THEN 304
                    ELSE IF if_match # <<>> /\ etag # if_match THEN 412 ELSE 0,
         etag |-> etag]

\* what the etag is generated from: nothing, or the mtime of the watcher
EtagSources == {<<>>} \cup {MTimeStr(m) : m \in 0..MaxMTime}

InitEtag ==
    /\ store = <<>>
    /\ fs = {}
    /\ sidecars = {}
    /\ scan = Idle
    /\ hist = [changes |-> 0, updates |-> <<>>, ingested |-> {}]
    /\ result = NoResult
    /\ mtime = 0
    /\ dbmtime = 0
    /\ resp = NoResult

\* Etag.__call__ is resolved for a request
CallEtag ==
    /\ result = NoResult
    /\ \E gen \in EtagSources : \E inm \in ClientEtags : \E im \in ClientEtags :
        result' = [op |-> "Etag", gen |-> gen, if_none_match |-> inm, if_match |-> im,
                   value |-> Etag(gen, inm, im)]
    /\ UNCHANGED <<fs, store, sidecars, scan, hist, mtime, dbmtime, resp>>

\* handle_etag is called for a request
CallHandleEtag ==
    /\ result = NoResult
    /\ \E gen \in EtagSources : \E inm \in ClientEtags : \E im \in ClientEtags :
        result' = [op |-> "handle_etag", gen |-> gen, if_none_match |-> inm,
                   if_match |-> im, value |-> handle_etag(gen, inm, im)]
    /\ UNCHANGED <<fs, store, sidecars, scan, hist, mtime, dbmtime, resp>>

\* the outcome is acted upon
EtagDone ==
    /\ result # NoResult
    /\ result' = NoResult
    /\ UNCHANGED <<fs, store, sidecars, scan, hist, mtime, dbmtime, resp>>

NextEtag == CallEtag \/ CallHandleEtag \/ EtagDone

SpecEtag == InitEtag /\ [][NextEtag]_vars

----------------------------------------------------------------------------
(* Content negotiation on its own *)

\* the greatest number of media ranges, commas and spaces of an Accept header
MaxAcceptLen == 3

AcceptLexemes ==
    AcceptableJson \cup AcceptableHtml \cup {"application/xml", ",", " "}

\* the Accept headers a request can carry: none, or a value without leading
\* and trailing space
AcceptInputs ==
    {h \in UNION {[1..n -> AcceptLexemes] : n \in 0..MaxAcceptLen} :
        h # <<>> => h[1] # " " /\ h[Len(h)] # " "}

InitAccept ==
    /\ store = <<>>
    /\ fs = {}
    /\ sidecars = {}
    /\ scan = Idle
    /\ hist = [changes |-> 0, updates |-> <<>>, ingested |-> {}]
    /\ result = NoResult
    /\ mtime = 0
    /\ dbmtime = 0
    /\ resp = NoResult

\* get_response_media_type is resolved for a request
CallMediaType ==
    /\ result = NoResult
    /\ \E accept \in AcceptInputs :
        result' = [op |-> "media_type", accept |-> accept,
                   value |-> get_response_media_type(accept)]
    /\ UNCHANGED <<fs, store, sidecars, scan, hist, mtime, dbmtime, resp>>

\* the media type is acted upon
MediaTypeDone ==
    /\ result # NoResult
    /\ result' = NoResult
    /\ UNCHANGED <<fs, store, sidecars, scan, hist, mtime, dbmtime, resp>>

NextAccept == CallMediaType \/ MediaTypeDone

SpecAccept == InitAccept /\ [][NextAccept]_vars

----------------------------------------------------------------------------
(* The server with its scanner: /reload requests, the watcher and GET /simple/ *)

\* the worker threads that to_thread.run_sync hands a scan to
Threads == {"t1", "t2"}

\* the archive found by the scan of lifespan, and the one added later
ServedArchive == File(RootDir, WheelA, "c1")

AddedArchive == File(ExtDir, WheelB, "c5")

\* GET /simple/ for the JSON listing, with and without If-None-Match
ServeRequests ==
    {r \in Requests : /\ r.route = "index" /\ r.index = <<>> /\ r.project = <<"a">>
                      /\ r.accept = <<JSON_V1>> /\ r.if_match = NoHeader}

\* the last 200 response to GET /simple/ that was sent: its ETag, its
\* listing, and the number of rows of the store it was made from
NotIssued == [etag |-> <<>>, body |-> <<>>, version |-> 0]

\* lifespan has run: the database is created and scanned, the watcher is
\* constructed and has not yet polled
InitServe ==
    /\ fs = {ServedArchive}
    /\ store = <<RowOf(ServedArchive)>>
    /\ sidecars = {ServedArchive}
    /\ scan = [t \in Threads |-> Idle]
    /\ hist = NotIssued
    /\ result = NoResult
    /\ mtime = 0
    /\ dbmtime = 1
    /\ resp = [req |-> NoRequest]

\* an archive is copied into files_dir
FileAdded ==
    /\ AddedArchive \notin fs
    /\ fs' = fs \cup {AddedArchive}
    /\ UNCHANGED <<store, sidecars, scan, hist, result, mtime, dbmtime, resp>>

\* GET /reload: reload_index_data hands the scan to a worker thread, which
\* starts the walk of files_dir
ReloadBegin(t) ==
    /\ scan[t] = Idle
    /\ scan' = [scan EXCEPT ![t] = [pc |-> "walk", todo |-> iter_files(fs)]]
    /\ UNCHANGED <<fs, store, sidecars, hist, result, mtime, dbmtime, resp>>

\* pathlib's write_bytes opens the sidecar of f for writing: the file exists
\* and holds none or a part of its bytes until the write is over
Partial == "partial"

open_sidecar(sc, f) ==
    {s \in sc : ~SamePath(s, f)} \cup {[dir |-> f.dir, name |-> f.name, c |-> Partial]}

\* the loop of Database.update in thread t takes a file of the walk: the
\* existence check, then the part of read that parses the archive
ReloadCheck(t) ==
    /\ scan[t].pc = "walk"
    /\ \E e \in scan[t].todo :
        scan' = [scan EXCEPT ![t] =
                    IF \/ CHECK_DIST(store, e.index, e.file.name) # 0
                       \/ read(e.file).err # "none"
                    THEN [pc |-> "walk", todo |-> scan[t].todo \ {e}]
                    ELSE [pc |-> "save", todo |-> scan[t].todo \ {e}, e |-> e]]
    /\ UNCHANGED <<fs, store, sidecars, hist, result, mtime, dbmtime, resp>>

\* save_metadata in thread t: write_bytes opens the sidecar
ReloadOpen(t) ==
    /\ scan[t].pc = "save"
    /\ sidecars' = open_sidecar(sidecars, scan[t].e.file)
    /\ scan' = [scan EXCEPT ![t].pc = "write"]
    /\ UNCHANGED <<fs, store, hist, result, mtime, dbmtime, resp>>

\* save_metadata in thread t: write_bytes has written all the bytes
ReloadWrite(t) ==
    /\ scan[t].pc = "write"
    /\ sidecars' = save_metadata(sidecars, scan[t].e.file)
    /\ scan' = [scan EXCEPT ![t].pc = "insert"]
    /\ UNCHANGED <<fs, store, hist, result, mtime, dbmtime, resp>>

\* save_metadata in thread t: the write fails part-way (the disk is full) and
\* the OSError leaves read and Database.update
ReloadWriteFails(t) ==
    /\ scan[t].pc = "write"
    /\ scan' = [scan EXCEPT ![t] = [pc |-> "raised", err |-> "OSError"]]
    /\ UNCHANGED <<fs, store, sidecars, hist, result, mtime, dbmtime, resp>>

\* STORE_DIST in thread t; a committed insert gives the database file a
\* later mtime, an IntegrityError leaves Database.update
ReloadInsert(t) ==
    /\ scan[t].pc = "insert"
    /\ LET row == RowOf(scan[t].e.file) IN
       IF FileLookupConflict(store, row)
       THEN /\ scan' = [scan EXCEPT ![t] = [pc |-> "raised", err |-> "IntegrityError"]]
            /\ UNCHANGED <<store, dbmtime>>
       ELSE /\ dbmtime < MaxMTime
            /\ store' = STORE_DIST(store, row)
            /\ dbmtime' = dbmtime + 1
            /\ scan' = [scan EXCEPT ![t] = [pc |-> "walk", todo |-> scan[t].todo]]
    /\ UNCHANGED <<fs, sidecars, hist, result, mtime, resp>>

\* the exception of thread t reaches the handler: /reload is answered 500
ReloadRaised(t) ==
    /\ scan[t].pc = "raised"
    /\ scan' = [scan EXCEPT ![t] = Idle]
    /\ UNCHANGED <<fs, store, sidecars, hist, result, mtime, dbmtime, resp>>

\* the walk of thread t is over and /reload is answered
ReloadEnd(t) ==
    /\ scan[t].pc = "walk"
    /\ scan[t].todo = {}
    /\ scan' = [scan EXCEPT ![t] = Idle]
    /\ UNCHANGED <<fs, store, sidecars, hist, result, mtime, dbmtime, resp>>

\* FileMTimeWatcher.run: one round of the polling loop
ServeWatcherRun ==
    /\ mtime # dbmtime
    /\ mtime' = dbmtime
    /\ UNCHANGED <<fs, store, sidecars, scan, hist, result, dbmtime, resp>>

\* GET /simple/ is handled
ServeIndexRequest ==
    /\ resp.req = NoRequest
    /\ \E req \in ServeRequests :
        resp' = [req |-> req, etags |-> IndexEtags(mtime, req),
                 response |-> IndexRoute(store, mtime, req), version |-> Len(store)]
    /\ UNCHANGED <<fs, store, sidecars, scan, hist, result, mtime, dbmtime>>

\* the response is sent; the client keeps the ETag of a 200
ServeRespond ==
    /\ resp.req # NoRequest
    /\ hist' = IF resp.response.status = 200
               THEN [etag |-> resp.response.etag, body |-> resp.response.body,
                     version |-> resp.version]
               ELSE hist
    /\ resp' = [req |-> NoRequest]
    /\ UNCHANGED <<fs, store, sidecars, scan, result, mtime, dbmtime>>

NextServe ==
    \/ FileAdded
    \/ \E t \in Threads : ReloadBegin(t)
    \/ \E t \in Threads : ReloadCheck(t)
    \/ \E t \in Threads : ReloadOpen(t)
    \/ \E t \in Threads : ReloadWrite(t)
    \/ \E t \in Threads : ReloadWriteFails(t)
    \/ \E t \in Threads : ReloadInsert(t)
    \/ \E t \in Threads : ReloadRaised(t)
    \/ \E t \in Threads : ReloadEnd(t)
    \/ ServeWatcherRun
    \/ ServeIndexRequest
    \/ ServeRespond

SpecServe == InitServe /\ [][NextServe]_vars

----------------------------------------------------------------------------
(* The walk of a files directory that holds its cache directory *)

MetadataSuffix == <<".", "m", "e", "t", "a", "d", "a", "t", "a">>

\* save_metadata: the sidecar of archive f as a file under files_dir,
\*   cache_dir.joinpath(file.relative_to(files_dir)).with_name(file.name + ".metadata")
metadata_file(f) ==
    File(IF f.dir = RootDir THEN CacheDir ELSE CacheDir \o <<"/">> \o f.dir,
         f.name \o MetadataSuffix, f.c)

\* Database.database_file
database_file == File(CacheDir, <<"d", "b", ".", "s", "q", "l", "i", "t", "e">>, "c6")

\* what os.walk(files_dir) meets: the archives, the database file and the
\* sidecars written so far
WalkTree(tree, sc) == tree \cup {database_file} \cup {metadata_file(s) : s \in sc}

\* the trees with one file per path, and the sidecars of earlier scans
WalkInputs ==
    {in \in [tree : SUBSET Archives, sidecars : SUBSET Archives] :
        /\ \A f, g \in in.tree : SamePath(f, g) => f = g
        /\ in.sidecars \subseteq {f \in in.tree : read(f).err = "none"}}

InitWalk ==
    /\ \E in \in WalkInputs : fs = in.tree /\ sidecars = in.sidecars
    /\ store = <<>>
    /\ scan = Idle
    /\ hist = <<>>
    /\ result = NoResult
    /\ mtime = 0
    /\ dbmtime = 0
    /\ resp = [req |-> NoRequest]

\* ProjectFileReader(files_dir, cache_dir).iter_files() is exhausted
CallIterFiles ==
    /\ result = NoResult
    /\ result' = [op |-> "iter_files", value |-> iter_files(WalkTree(fs, sidecars))]
    /\ UNCHANGED <<fs, store, sidecars, scan, hist, mtime, dbmtime, resp>>

IterFilesDone ==
    /\ result # NoResult
    /\ result' = NoResult
    /\ UNCHANGED <<fs, store, sidecars, scan, hist, mtime, dbmtime, resp>>

NextWalk == CallIterFiles \/ IterFilesDone

SpecWalk == InitWalk /\ [][NextWalk]_vars

----------------------------------------------------------------------------
(* simple_python_package_index: SimpleIndexCollection and its readers.
   The variable store holds the dict _indexes, fs the data directory and
   scan the thread that runs reload. *)

\* the files that may lie in data_dir and in its directory ext
DataFiles ==
    { File(RootDir, WheelA, "c1"), File(RootDir, TextN, "c1"),
      File(ExtDir, WheelB, "c5") }

\* SimpleIndex.add_dist handles wheels and sdists and ignores other files
Handled(f) == IsWheel(f.name) \/ IsSdist(f.name)

\* SimpleIndex.projects for a set of files: the files of each canonical name
Projects(files) ==
    [name \in {canonicalize_name(Contents[f.c].name) : f \in files} |->
        {RelPath(f) : f \in {g \in files : canonicalize_name(Contents[g.c].name) = name}}]

\* the local dict that reload builds: an index per directory of data_dir
\* that holds a file, and the root index, into which all are merged
BuildIndexes(tree) ==
    [n \in {<<>>} \cup {f.dir : f \in {g \in tree : g.dir # RootDir}} |->
        Projects({f \in tree : Handled(f) /\ (n = <<>> \/ f.dir = n)})]

NoIndexes == [n \in {} |-> {}]

CollectionNames == {<<>>, ExtDir}

\* the handler index: index_data[collection].index; the KeyError of a
\* missing collection is not caught
CollectionIndex(ix, collection) ==
    IF collection \in DOMAIN ix
    THEN [status |-> 200, body |-> DOMAIN ix[collection]]
    ELSE [status |-> 500, body |-> {}]

\* the handler project_detail for a canonical name and an acceptable type:
\* index_data[collection][name], a KeyError giving 404
CollectionProjectDetail(ix, collection, name) ==
    IF collection \in DOMAIN ix /\ name \in DOMAIN ix[collection]
    THEN [status |-> 200, body |-> ix[collection][name]]
    ELSE [status |-> 404, body |-> {}]

\* startup_event has run reload over the data directory
InitCollection ==
    /\ fs \in SUBSET DataFiles
    /\ store = BuildIndexes(fs)
    /\ sidecars = {}
    /\ scan = Idle
    /\ hist = <<>>
    /\ result = NoResult
    /\ mtime = 0
    /\ dbmtime = 0
    /\ resp = [req |-> NoRequest]

\* a file is copied into the data directory or removed from it
DataChange ==
    /\ result = NoResult
    /\ \E f \in DataFiles : fs' = IF f \in fs THEN fs \ {f} ELSE fs \cup {f}
    /\ UNCHANGED <<store, sidecars, scan, hist, result, mtime, dbmtime, resp>>

\* reload is called in a thread and builds its local dict, up to
\* _merge_all_indexes_into_root
reload ==
    /\ scan = Idle
    /\ scan' = [pc |-> "built", indexes |-> BuildIndexes(fs), before |-> store]
    /\ UNCHANGED <<fs, store, sidecars, hist, result, mtime, dbmtime, resp>>

\* reload: self._indexes.clear()
ReloadClear ==
    /\ scan.pc = "built"
    /\ store' = NoIndexes
    /\ scan' = [scan EXCEPT !.pc = "cleared"]
    /\ UNCHANGED <<fs, sidecars, hist, result, mtime, dbmtime, resp>>

\* reload: self._indexes.update(indexes), and the return
ReloadUpdate ==
    /\ scan.pc = "cleared"
    /\ store' = scan.indexes
    /\ scan' = Idle
    /\ UNCHANGED <<fs, sidecars, hist, result, mtime, dbmtime, resp>>

\* the complete sets of indexes a reader may see: the one in place, or the
\* ones before and after the reload in progress
CompleteIndexes == IF scan = Idle THEN {store} ELSE {scan.before, scan.indexes}

\* GET /{collection}/simple/ is handled in a worker thread
CollectionIndexRequest ==
    /\ result = NoResult
    /\ \E collection \in CollectionNames :
        result' = [op |-> "index", collection |-> collection,
                   complete |-> CompleteIndexes,
                   value |-> CollectionIndex(store, collection)]
    /\ UNCHANGED <<fs, store, sidecars, scan, hist, mtime, dbmtime, resp>>

\* GET /{collection}/simple/{project_name}/ is handled in a worker thread
CollectionDetailRequest ==
    /\ result = NoResult
    /\ \E collection \in CollectionNames : \E name \in {<<"a">>, <<"b">>} :
        result' = [op |-> "project_detail", collection |-> collection, name |-> name,
                   complete |-> CompleteIndexes,
                   value |-> CollectionProjectDetail(store, collection, name)]
    /\ UNCHANGED <<fs, store, sidecars, scan, hist, mtime, dbmtime, resp>>

CollectionRespond ==
    /\ result # NoResult
    /\ result' = NoResult
    /\ UNCHANGED <<fs, store, sidecars, scan, hist, mtime, dbmtime, resp>>

NextCollection ==
    \/ DataChange
    \/ reload
    \/ ReloadClear
    \/ ReloadUpdate
    \/ CollectionIndexRequest
    \/ CollectionDetailRequest
    \/ CollectionRespond

SpecCollection == InitCollection /\ [][NextCollection]_vars

----------------------------------------------------------------------------
(* Properties of the scanner and the store *)

RowSet(st) == Range(st)

\* the stores a single Database.update over tree can leave, from store st,
\* over every order of the walk
RECURSIVE UpdateAll(_, _)
UpdateAll(st, todo) ==
    IF todo = {} THEN {st}
    ELSE UNION {UpdateAll(UpdateOne(st, {}, e.index, e.file).store, todo \ {e}) :
                    e \in todo}

\* C1: when Database.update() runs a second time over an unchanged
\* files_dir it returns normally and leaves the store as the first run left
\* it: the same rows, the same stats() tuple and the same ProjectDetail for
\* every project and index.
C1_IdempotentScan ==
    \A k \in 1..(Len(hist.updates) - 1) :
        LET first == hist.updates[k]
            second == hist.updates[k + 1]
        IN  (first.outcome = "returned" /\ second.tree = first.tree) =>
                /\ second.outcome = "returned"
                /\ second.after = first.after
                /\ stats(second.after) = stats(first.after)
                /\ \A p \in IndexNames : \A project \in ProjectNames :
                       get_project_detail(second.after, project, p)
                           = get_project_detail(first.after, project, p)

\* two updates over the same tree, which holds an ingested archive, a text
\* file or an unreadable archive, have returned
C1_Witness ==
    /\ Len(hist.updates) = 2
    /\ hist.updates[1].tree = hist.updates[2].tree
    /\ hist.updates[1].after # <<>>
    /\ \E f \in hist.updates[2].tree : read(f).err # "none"

\* C2: in every state the store holds at most one row for an
\* (index, filename) pair, and exactly one for each pair an update has
\* ingested.
C2_InsertUniqueness ==
    /\ \A i, j \in DOMAIN store :
           (store[i].index = store[j].index /\ store[i].filename = store[j].filename)
               => i = j
    /\ \A pair \in hist.ingested :
           Cardinality({i \in DOMAIN store : /\ store[i].index = pair.index
                                             /\ store[i].filename = pair.filename}) = 1

\* a second update has walked over an archive whose pair the first ingested
\* and whose bytes were replaced since
C2_Witness ==
    /\ Len(hist.updates) = 2
    /\ \E f \in hist.updates[2].tree : \E i \in DOMAIN hist.updates[1].after :
           LET row == hist.updates[1].after[i] IN
           /\ row.index = IndexOfDir(f.dir) /\ row.filename = f.name
           /\ row.file.url = RelPath(f) /\ row.file.sha256 # f.c

\* C3: an update over a tree T1 on the empty store that ingests an archive,
\* followed by an update over a tree T2 that adds archives to T1 and changes
\* nothing else, leaves the rows and the
\* stats() tuple that a single update over T2 on the empty store leaves, and
\* keeps every row of the first update.
C3_IncrementalUpdate ==
    (/\ Len(hist.updates) = 2
     /\ hist.updates[1].before = <<>>
     /\ hist.updates[1].after # <<>>
     /\ hist.updates[1].outcome = "returned"
     /\ hist.updates[2].outcome = "returned"
     /\ hist.updates[1].tree \subseteq hist.updates[2].tree
     /\ hist.updates[1].tree # hist.updates[2].tree) =>
        /\ RowSet(hist.updates[1].after) \subseteq RowSet(store)
        /\ \A fresh \in UpdateAll(<<>>, iter_files(hist.updates[2].tree)) :
               /\ RowSet(fresh) = RowSet(store)
               /\ stats(fresh) = stats(store)

----------------------------------------------------------------------------
(* Properties of the queries *)

\* the sub-index a stored index names: "ext/" names ext and "/" the root
SubIndex(stored) == SubSeq(stored, 1, Len(stored) - 1)

\* the stored index is the sub-index p or lies under p/; every stored index
\* when p is empty
Addressed(p, stored) ==
    \/ p = <<>>
    \/ SubIndex(stored) = p
    \/ StartsWith(SubIndex(stored), p \o <<"/">>)

Ascending(q) == \A k \in 1..(Len(q) - 1) : StrLess(q[k], q[k + 1])

\* C4: get_project_list(p) returns the projects of exactly the rows whose
\* sub-index is p or lies under p/ (of all rows when p is empty), and
\* get_project_detail(project, p) the files of exactly those rows of the
\* project.
C4_IndexMatching ==
    /\ result.op = "list" =>
           Range(result.value) =
               {store[i].project :
                    i \in {j \in DOMAIN store : Addressed(result.index, store[j].index)}}
    /\ result.op = "detail" =>
           LET rows == {i \in DOMAIN store : /\ store[i].project = result.project
                                             /\ Addressed(result.index, store[i].index)}
               files == Range(result.value.files)
           IN  /\ {f.filename : f \in files} = {store[i].filename : i \in rows}
               /\ \A f \in files : \E i \in rows : store[i].file = f

\* C5: get_project_list returns the project names in ascending byte order,
\* each at most once.
C5_ProjectListSorted ==
    result.op = "list" => Ascending(result.value)

\* the root listing of a store in which a listed project has rows in two
\* sub-indexes, with at least two projects listed
C5_Witness ==
    /\ result.op = "list" /\ result.index = <<>>
    /\ Len(result.value) >= 2
    /\ \E i, j \in DOMAIN store :
           store[i].project = store[j].project /\ store[i].index # store[j].index

\* C6: get_project_detail returns the files in ascending order of filename,
\* each filename at most once, and for each filename the file of the
\* earliest-inserted row among the rows the query matches.
C6_ProjectDetailFiles ==
    result.op = "detail" =>
        LET files == result.value.files
            cand == DetailCandidates(store, result.project, search_index(result.index))
        IN  /\ Ascending([k \in DOMAIN files |-> files[k].filename])
            /\ \A k \in DOMAIN files : \E i \in cand :
                   /\ store[i].file = files[k]
                   /\ \A j \in cand : store[j].filename = files[k].filename => i <= j

\* a detail of two files, one of them with a second, later row of the same
\* filename in another sub-index
C6_Witness ==
    /\ result.op = "detail"
    /\ Len(result.value.files) = 2
    /\ \E i, j \in DetailCandidates(store, result.project, search_index(result.index)) :
           i < j /\ store[i].filename = store[j].filename /\ store[i].file # store[j].file

\* C7: the versions of a ProjectDetail are in ascending order of plain
\* string comparison, without duplicates, and are exactly the versions of
\* the rows of the files returned.
C7_ProjectDetailVersions ==
    result.op = "detail" =>
        /\ Ascending(result.value.versions)
        /\ Range(result.value.versions) =
               {store[i].version :
                    i \in {j \in DOMAIN store : store[j].file \in Range(result.value.files)}}

\* a detail whose versions are 1.10 and 1.9, in this order
C7_Witness ==
    /\ result.op = "detail"
    /\ result.value.versions = << <<"1", ".", "1", "0">>, <<"1", ".", "9">> >>

----------------------------------------------------------------------------
(* Properties of the HTTP layer *)

\* the statuses the dependencies of a route raise before its body runs
DependencyStatus == {304, 406, 412}

\* the query of the request in flight finds nothing
NothingFound ==
    IF resp.req.route = "index"
    THEN get_project_list(store, resp.req.index) = <<>>
    ELSE get_project_detail(store, canonicalize_name(resp.req.project),
                            resp.req.index).files = <<>>

\* C8: a project-list request whose index matches no row and a
\* project-detail request for a canonical project without a file under the
\* index are answered 404 once the body of the route runs, and no response
\* is a 200 with an empty listing.
C8_NotFound ==
    resp.req # NoRequest =>
        LET r == resp.response
            req == resp.req
        IN  /\ ( /\ r.status \notin DependencyStatus
                 /\ NothingFound
                 /\ req.route = "detail" => canonicalize_name(req.project) = req.project )
                   => r.status = 404 /\ r.body = <<>>
            /\ r.status = 200 =>
                   IF req.route = "index" THEN r.body # <<>> ELSE r.body.files # <<>>

\* a 404 for a project that the store holds, but not under the index asked
\* for
C8_Witness ==
    /\ resp.req # NoRequest
    /\ resp.req.route = "detail" /\ resp.req.index = <<"e", "x">>
    /\ resp.response.status = 404
    /\ \E i \in DOMAIN store : store[i].project = resp.req.project

\* C9: a request to /simple/P/ with canonicalize_name(P) # P that reaches
\* the body of the route is answered 301 with Location
\* /simple/canonicalize_name(P)/, whether the store holds the project or not.
C9_CanonicalRedirect ==
    ( /\ resp.req # NoRequest
      /\ resp.req.route = "detail" /\ resp.req.index = <<>>
      /\ canonicalize_name(resp.req.project) # resp.req.project
      /\ resp.response.status \notin DependencyStatus )
        => /\ resp.response.status = 301
           /\ resp.response.location =
                  SimplePath \o canonicalize_name(resp.req.project) \o <<"/">>

\* the redirect of /simple/B/ to /simple/b/, a project of which the store
\* has no file
C9_Witness ==
    /\ resp.req # NoRequest
    /\ resp.req.route = "detail" /\ resp.req.index = <<>>
    /\ resp.req.project = <<"B">>
    /\ store # <<>> /\ \A i \in DOMAIN store : store[i].project # <<"b">>
    /\ resp.response.status = 301
    /\ resp.response.location = SimplePath \o <<"b", "/">>

\* C10: a request whose If-None-Match equals the ETag an Etag dependency
\* computes is answered 304 with that ETag header; a request whose
\* If-None-Match differs from it is answered neither 304 nor 412, and 200
\* when the media type is acceptable and the listing exists.
C10_IfNoneMatch ==
    (resp.req # NoRequest /\ resp.req.if_none_match # NoHeader) =>
        LET r == resp.response
            req == resp.req
        IN  /\ req.if_none_match \in resp.etags
                   => r.status = 304 /\ r.etag = req.if_none_match
            /\ req.if_none_match \notin resp.etags =>
                   /\ r.status \notin {304, 412}
                   /\ ( /\ get_response_media_type(req.accept).raised = 0
                        /\ ~NothingFound
                        /\ canonicalize_name(req.project) = req.project )
                          => r.status = 200 /\ r.etag \in resp.etags

\* a 304 for the ETag of the mtime the watcher has read from the database
\* file
C10_Witness ==
    /\ resp.req # NoRequest
    /\ mtime = dbmtime
    /\ resp.req.if_none_match = <<"W", "/", "\"">> \o MTimeStr(mtime) \o <<"\"">>
    /\ resp.response.status = 304
    /\ resp.response.etag = resp.req.if_none_match

\* C11: a request without If-None-Match whose If-Match differs from the
\* ETag an Etag dependency computes is answered 412 with that ETag header;
\* when If-Match equals every ETag computed, the answer is neither 304 nor
\* 412, and 200 when the media type is acceptable and the listing exists.
C11_IfMatch ==
    ( /\ resp.req # NoRequest
      /\ resp.req.if_none_match = NoHeader
      /\ resp.req.if_match # NoHeader ) =>
        LET r == resp.response
            req == resp.req
        IN  /\ (\E e \in resp.etags : e # req.if_match)
                   => /\ r.status = 412
                      /\ r.etag \in resp.etags /\ r.etag # req.if_match
            /\ (\A e \in resp.etags : e = req.if_match) =>
                   /\ r.status \notin {304, 412}
                   /\ ( /\ get_response_media_type(req.accept).raised = 0
                        /\ ~NothingFound
                        /\ canonicalize_name(req.project) = req.project )
                          => r.status = 200 /\ r.etag = req.if_match

\* a 412 for If-Match: XXX, carrying the ETag of the mtime the watcher has
\* read
C11_Witness ==
    /\ resp.req # NoRequest
    /\ mtime = dbmtime
    /\ resp.req.if_none_match = NoHeader
    /\ resp.req.if_match = <<"X", "X", "X">>
    /\ resp.response.status = 412
    /\ resp.response.etag = <<"W", "/", "\"">> \o MTimeStr(mtime) \o <<"\"">>

----------------------------------------------------------------------------
(* Properties of the conditional layer *)

\* the outcome of the implementation op of the conditional layer
Conditional(op, gen, if_none_match, if_match) ==
    IF op = "Etag" THEN Etag(gen, if_none_match, if_match)
    ELSE handle_etag(gen, if_none_match, if_match)

\* C12: when a request carries both If-None-Match and If-Match, the outcome
\* of the conditional layer (Etag.__call__ and handle_etag) is the outcome
\* of the same request without If-Match.
C12_IfNoneMatchPrecedence ==
    ( /\ result.op \in {"Etag", "handle_etag"}
      /\ result.if_none_match # NoHeader
      /\ result.if_match # NoHeader )
        => result.value = Conditional(result.op, result.gen, result.if_none_match, NoHeader)

----------------------------------------------------------------------------
(* Properties of the ETag over time, and of concurrent scans *)

\* C13: a 200 response to GET /simple/ made from the store from which an
\* earlier 200 response was made (no scan has changed the store in between)
\* carries the ETag of the earlier response, and a request that replays that
\* ETag in If-None-Match is answered 304.
C13_EtagInvariance ==
    ( /\ resp.req # NoRequest
      /\ hist # NotIssued
      /\ resp.version = hist.version ) =>
        /\ resp.response.status = 200 => resp.response.etag = hist.etag
        /\ resp.req.if_none_match = hist.etag => resp.response.status = 304

\* C14: a response whose listing differs from the listing of an earlier 200
\* response (an insert has been committed in between) does not carry the
\* ETag of the earlier response, and is not a 304 when the earlier ETag is
\* replayed in If-None-Match.
C14_EtagDataConsistency ==
    ( /\ resp.req # NoRequest
      /\ hist # NotIssued
      /\ get_project_list(store, <<>>) # hist.body
      /\ resp.version = Len(store) ) =>
        /\ resp.response.status = 200 => resp.response.etag # hist.etag
        /\ resp.req.if_none_match = hist.etag => resp.response.status # 304

\* C18: at most one scan is in progress at any time.
C18_ScanReentrancy ==
    Cardinality({t \in Threads : scan[t] # Idle}) <= 1

----------------------------------------------------------------------------
(* Properties of the ETag header and of content negotiation *)

WeakPrefix == <<"W", "/", "\"">>

\* W/"<token>" with a token that is not empty
IsWeakEtag(e) ==
    /\ Len(e) > Len(WeakPrefix) + 1
    /\ StartsWith(e, WeakPrefix)
    /\ e[Len(e)] = "\""

\* C15: every 200 response of the index and detail routes, JSON or HTML,
\* carries an ETag header of the form W/"<token>".
C15_WeakEtagOnSuccess ==
    (resp.req # NoRequest /\ resp.response.status = 200)
        => IsWeakEtag(resp.response.etag)

\* an HTML 200 of a detail route with the ETag of the polled mtime
C15_Witness ==
    /\ resp.req # NoRequest
    /\ resp.req.route = "detail"
    /\ resp.response.status = 200
    /\ resp.response.media_type = HTML_V1
    /\ resp.response.etag = WeakPrefix \o MTimeStr(dbmtime) \o <<"\"">>

\* header[i] is a whole comma-separated entry of the header
IsEntry(header, i) ==
    /\ header[i] # ","
    /\ i = 1 \/ header[i - 1] = ","
    /\ i = Len(header) \/ header[i + 1] = ","

\* the comma-separated entries of the header that are one media range
EntryValues(header) == {header[i] : i \in {j \in DOMAIN header : IsEntry(header, j)}}

\* C16: get_response_media_type selects JSON v1 whenever a comma-separated
\* entry of the Accept header is v1+json or latest+json, at any position and
\* whatever the other entries are.
C16_JsonPrecedence ==
    ( /\ result.op = "media_type"
      /\ EntryValues(result.accept) \cap AcceptableJson # {} )
        => result.value = [raised |-> 0, media_type |-> JSON_V1]

\* JSON selected for a header whose first entry is text/html and whose
\* second is latest+json
C16_Witness ==
    /\ result.op = "media_type"
    /\ result.accept = <<"text/html", ",", "application/vnd.pypi.simple.latest+json">>
    /\ result.value.media_type = JSON_V1

\* C17: without an Accept header, or with an HTML value or */* and no JSON
\* value among the entries, get_response_media_type selects HTML v1; it
\* raises 406 exactly when there is a header and none of its entries is a
\* value of the table.
C17_NegotiationCompleteness ==
    result.op = "media_type" =>
        LET values == EntryValues(result.accept)
            html == \/ result.accept = NoHeader
                    \/ /\ values \cap {HTML_V1, "application/vnd.pypi.simple.latest+html",
                                        "text/html", "*/*"} # {}
                       /\ values \cap AcceptableJson = {}
            none == /\ result.accept # NoHeader
                    /\ values \cap (AcceptableJson
                                      \cup {HTML_V1, "application/vnd.pypi.simple.latest+html",
                                            "text/html", "*/*"}) = {}
        IN  /\ html => result.value = [raised |-> 0, media_type |-> HTML_V1]
            /\ result.value.raised = 406 <=> none

\* HTML selected for the header "application/xml,*/*"
C17_Witness ==
    /\ result.op = "media_type"
    /\ result.accept = <<"application/xml", ",", "*/*">>
    /\ result.value = [raised |-> 0, media_type |-> HTML_V1]

----------------------------------------------------------------------------
(* Properties of the sub-index of a row and of the redirect under an index *)

\* the path, relative to files_dir, of the file named filename in the
\* directory that the sub-index sub names
PathUnder(sub, filename) ==
    IF sub = <<>> THEN filename ELSE sub \o <<"/">> \o filename

\* C19: every row is recorded under the sub-index named by the path of the
\* parent directory of its archive relative to files_dir (the empty name for
\* files_dir itself), and an archive has one row only.
C19_SubIndexAssignment ==
    \A i \in DOMAIN store :
        /\ store[i].file.url = PathUnder(SubIndex(store[i].index), store[i].filename)
        /\ \A j \in DOMAIN store : store[j].file.url = store[i].file.url => j = i

\* C20: a request to /{index}/simple/{P}/ with canonicalize_name(P) # P that
\* reaches the body of the route is answered 301 with Location
\* /{index}/simple/{canonicalize_name(P)}/: the index segment and the simple
\* segment are those of the request.
C20_RedirectKeepsIndex ==
    ( /\ resp.req # NoRequest
      /\ resp.req.route = "detail" /\ resp.req.index # <<>>
      /\ canonicalize_name(resp.req.project) # resp.req.project
      /\ resp.response.status \notin DependencyStatus )
        => /\ resp.response.status = 301
           /\ resp.response.location =
                  <<"/">> \o resp.req.index \o SimplePath
                      \o canonicalize_name(resp.req.project) \o <<"/">>

----------------------------------------------------------------------------
(* Properties of the scan under failures and concurrency *)

\* C21: an insert for an (index, filename) pair that already has a row (two
\* scans have both passed the existence check) is dropped without error: no
\* scan is ended by an IntegrityError.
C21_ConflictingInsert ==
    \A t \in Threads :
        ~(scan[t].pc = "raised" /\ scan[t].err = "IntegrityError")

\* the rows a completed update has inserted
Inserted(u) == {u.after[i] : i \in (DOMAIN u.after) \ (DOMAIN u.before)}

\* C22: an update over a tree that holds a file that is no archive, or an
\* archive that cannot be read, returns normally; it inserts no row for such
\* a file, and every readable archive of the tree has a row for its
\* (index, filename) pair afterwards.
C22_ScanRobustness ==
    \A k \in DOMAIN hist.updates :
        LET u == hist.updates[k] IN
        (\E f \in u.tree : read(f).err # "none") =>
            /\ u.outcome = "returned"
            /\ \A row \in Inserted(u) :
                   \E f \in u.tree : read(f).err = "none" /\ RowOf(f) = row
            /\ \A f \in u.tree :
                   read(f).err = "none" =>
                       \E i \in DOMAIN u.after :
                           /\ u.after[i].index = IndexOfDir(f.dir)
                           /\ u.after[i].filename = f.name

\* an update has returned over a tree with a text file, an unreadable sdist
\* and a wheel, and has inserted the row of the wheel
C22_Witness ==
    \E k \in DOMAIN hist.updates :
        LET u == hist.updates[k] IN
        /\ u.outcome = "returned"
        /\ \E f \in u.tree : read(f).err = "UnhandledFileTypeError"
        /\ \E f \in u.tree : read(f).err = "InvalidFileError"
        /\ \E f \in u.tree : read(f).err = "none" /\ RowOf(f) \in Inserted(u)

\* C23: in every reachable state every row of the store has a sidecar at
\* its relative path whose content is the metadata the row's
\* core_metadata digest was taken from.
C23_SidecarInvariant ==
    \A i \in DOMAIN store :
        \E s \in sidecars :
            /\ RelPath(s) = store[i].file.url
            /\ s.c = store[i].file.core_metadata

\* the directory d is cache_dir or lies below it
UnderCacheDir(d) == d = CacheDir \/ StartsWith(d, CacheDir \o <<"/">>)

\* C24: the walk yields no file located under cache_dir, at any depth.
C24_CacheDirExclusion ==
    result # NoResult =>
        \A e \in result.value : ~UnderCacheDir(e.file.dir)

\* C25: a sidecar path holds the complete metadata bytes or no file, unless
\* a scan is writing it at this moment: a write that failed leaves no
\* partial sidecar behind.
C25_SidecarWriteAtomicity ==
    \A s \in sidecars :
        s.c = Partial =>
            \E t \in Threads : scan[t].pc = "write" /\ SamePath(scan[t].e.file, s)

----------------------------------------------------------------------------
(* Frame of the scan; sub-index names; the queries on odd index names *)

IsPrefix(s, t) == Len(s) <= Len(t) /\ SubSeq(t, 1, Len(s)) = s

\* C26: update() neither deletes nor changes a row: the rows of the store
\* before an update are, in their order, the first rows of the store at
\* every step of the update and after it, also when their archives were
\* removed or replaced in the meantime.
C26_RowsNeverMutated ==
    /\ scan # Idle => IsPrefix(scan.before, store)
    /\ \A k \in DOMAIN hist.updates :
           /\ IsPrefix(hist.updates[k].before, hist.updates[k].after)
           /\ k > 1 => hist.updates[k].before = hist.updates[k - 1].after

\* an update has inserted a row into a store that held the row of an archive
\* that is no longer in the tree with those bytes
C26_Witness ==
    \E k \in DOMAIN hist.updates :
        LET u == hist.updates[k] IN
        /\ Len(u.after) > Len(u.before)
        /\ \E i \in DOMAIN u.before :
               /\ \A f \in u.tree : read(f).err = "none" => RowOf(f) # u.before[i]
               /\ u.after[i] = u.before[i]

\* C27: iter_files gives distinct directories distinct sub-index names, so
\* that after an update two readable archives of one filename in two
\* directories of the tree both have a row.
C27_DistinctIndexNames ==
    \A k \in DOMAIN hist.updates :
        LET u == hist.updates[k] IN
        u.outcome = "returned" =>
            \A f, g \in u.tree :
                ( /\ f.dir # g.dir /\ f.name = g.name
                  /\ read(f).err = "none" /\ read(g).err = "none" ) =>
                    /\ IndexOfDir(f.dir) # IndexOfDir(g.dir)
                    /\ \E i, j \in DOMAIN u.after :
                           /\ u.after[i].file.url = RelPath(f)
                           /\ u.after[j].file.url = RelPath(g)

\* the characters SQLite's GLOB gives a meaning to
GlobMeta == {"*", "?", "["}

\* C28: for an index name p that holds a GLOB metacharacter,
\* get_project_list and get_project_detail return only what comes from rows
\* whose sub-index is literally p or lies under p/.
C28_GlobLiteralIndex ==
    ( /\ result.op \in {"list", "detail"}
      /\ \E k \in DOMAIN result.index : result.index[k] \in GlobMeta ) =>
        LET rows == {i \in DOMAIN store : Addressed(result.index, store[i].index)} IN
        /\ result.op = "list" =>
               \A name \in Range(result.value) : \E i \in rows : store[i].project = name
        /\ result.op = "detail" =>
               \A f \in Range(result.value.files) :
                   \E i \in rows : store[i].project = result.project /\ store[i].file = f

----------------------------------------------------------------------------
(* The two implementations of the conditional layer *)

\* C29: Etag.__call__ and handle_etag give the same outcome (continue with
\* the same ETag header, 304 or 412) for every server ETag and every
\* If-None-Match and If-Match.
C29_ConditionalEquivalence ==
    result.op \in {"Etag", "handle_etag"} =>
        /\ result.value = Etag(result.gen, result.if_none_match, result.if_match)
        /\ result.value = handle_etag(result.gen, result.if_none_match, result.if_match)

----------------------------------------------------------------------------
(* SimpleIndexCollection.reload and its readers *)

====
